---- MODULE Spec2Model ----
(***************************************************************************)
(* create-stern-config: the interactive scaffolding CLI of src/src/cli.ts. *)
(*                                                                         *)
(* The model has three layers:                                             *)
(*   - the data the program reads and writes: file contents as byte        *)
(*     sequences, the manifest as JSON text, JavaScript values;            *)
(*   - the functions of cli.ts as operators (detectPackageManager,         *)
(*     getInstallCommand, copyTemplate, updatePackageJson);                *)
(*   - main() as a state machine, one action per prompt and per step.      *)
(***************************************************************************)
EXTENDS Integers, Sequences, FiniteSets, TLC

VARIABLES
    lock,           \* lockfile name -> BOOLEAN: fs.existsSync of each lockfile
    bunProbe,       \* whether `bun --version` exits 0 on this machine
    targets,        \* target filename -> file (working directory)
    manifest,       \* the file package.json of the working directory
    targets0,       \* history: targets when the process started
    manifest0,      \* history: manifest when the process started
    pc,             \* position in main()
    pm,             \* const pm (cli.ts:123)
    files,          \* const files (cli.ts:126)
    updateScripts,  \* const updateScripts (cli.ts:142)
    updateEngines,  \* const updateEngines (cli.ts:152)
    installDeps,    \* const installDeps (cli.ts:162)
    exitCode,       \* the process's exit status, "running" until it exits
    out,            \* what was printed: p.log.*, spinner, p.cancel, p.outro
    calls           \* history: the calls made to the file system and to execSync

vars == << lock, bunProbe, targets, manifest, targets0, manifest0, pc, pm, files,
           updateScripts, updateEngines, installDeps, exitCode, out, calls >>

(***************************************************************************)
(* Bounds of the model.                                                    *)
(***************************************************************************)
\* Longest member list of a JSON object in an input manifest (top level).
MaxTop == 2
\* Longest member list of an input `scripts` object.
MaxEntries == 2

SeqsUpTo(S, n) == UNION { [1..k -> S] : k \in 0..n }

(***************************************************************************)
(* Files and bytes.  A file holds bytes; readFileSync(path, "utf8")        *)
(* decodes them to a string and writeFileSync(path, string) encodes the    *)
(* string as UTF-8.  Ascii bytes are named by their character; "xFF" is a  *)
(* byte that is not valid UTF-8; EF BF BD encodes U+FFFD.                  *)
(***************************************************************************)
NoFile == [exists |-> FALSE]
FileOf(b) == [exists |-> TRUE, bytes |-> b]

AsciiBytes == {"e", "p", "i", "u", "{", "}"}

RECURSIVE Utf8Decode(_)
Utf8Decode(b) ==
    IF b = << >> THEN << >>
    ELSE IF Len(b) >= 3 /\ SubSeq(b, 1, 3) = <<"xEF", "xBF", "xBD">>
         THEN <<"uFFFD">> \o Utf8Decode(SubSeq(b, 4, Len(b)))
    ELSE IF Head(b) \in AsciiBytes THEN <<Head(b)>> \o Utf8Decode(Tail(b))
    ELSE <<"uFFFD">> \o Utf8Decode(Tail(b))

RECURSIVE Utf8Encode(_)
Utf8Encode(s) ==
    IF s = << >> THEN << >>
    ELSE (IF Head(s) = "uFFFD" THEN <<"xEF", "xBF", "xBD">> ELSE <<Head(s)>>)
         \o Utf8Encode(Tail(s))

TargetFiles == {"eslint.config.js", "prettier.config.js", ".prettierignore"}

\* The bundled templates (templates/<filename> beside the compiled cli): static
\* text files of the package, one per target filename.
TemplateBytes(filename) ==
    CASE filename = "eslint.config.js"   -> <<"e", "{", "}">>
      [] filename = "prettier.config.js" -> <<"p", "{", "}">>
      [] filename = ".prettierignore"    -> <<"i">>

\* What a project may already hold under a target filename: any bytes.
UserBytes == <<"u", "xFF">>

(***************************************************************************)
(* JSON text and JavaScript values.                                        *)
(*                                                                         *)
(* JSON text is kept as its syntax tree: an object is its member list as   *)
(* written (duplicate names allowed), with the layout it is written in.    *)
(* A JavaScript object is its own properties in property order, no name    *)
(* twice.  Member names of the model are never integer-like, so property   *)
(* order is creation order.                                                *)
(***************************************************************************)
Str(s)  == [t |-> "str", s |-> s]
Null    == [t |-> "null"]
Arr(xs) == [t |-> "arr", items |-> xs, props |-> << >>]
Obj(ms) == [t |-> "obj", props |-> ms]
Undefined == [t |-> "undefined"]

NoManifest      == [exists |-> FALSE]
\* A manifest that is not JSON, by the text it holds.
NotJson(text)   == [exists |-> TRUE, syntax |-> "invalid", text |-> text]
InvalidJson     == NotJson("{ name: x")
JsonText(l, v)  == [exists |-> TRUE, syntax |-> "json", layout |-> l, value |-> v]
\* writeFileSync opens with O_TRUNC: a write that fails after the open leaves
\* an empty file, which is not JSON.
Truncated       == NotJson("")

HasProp(props, k) == \E i \in 1..Len(props) : props[i][1] = k
PropIndex(props, k) == CHOOSE i \in 1..Len(props) : props[i][1] = k

\* [[Set]] / CreateDataProperty on an ordinary object: an existing property
\* keeps its place and takes the new value, a new one is appended.
DefineProp(props, k, v) ==
    IF HasProp(props, k)
    THEN [props EXCEPT ![PropIndex(props, k)] = <<k, v>>]
    ELSE Append(props, <<k, v>>)

RECURSIVE DefineAll(_, _)
DefineAll(props, ms) ==
    IF ms = << >> THEN props
    ELSE DefineAll(DefineProp(props, Head(ms)[1], Head(ms)[2]), Tail(ms))

\* JSON.parse of a value: a duplicate member name keeps the last value.
RECURSIVE ParseValue(_)
ParseValue(tv) ==
    CASE tv.t = "obj" ->
           Obj(DefineAll(<< >>,
                 [i \in 1..Len(tv.props) |->
                    <<tv.props[i][1], ParseValue(tv.props[i][2])>>]))
      [] tv.t = "arr" -> Arr([i \in 1..Len(tv.items) |-> ParseValue(tv.items[i])])
      [] OTHER -> tv

\* JSON.stringify of a value: own properties in order; an array writes its
\* items only (properties set on the array object are not serialized).
RECURSIVE StringifyValue(_)
StringifyValue(v) ==
    CASE v.t = "obj" ->
           Obj([i \in 1..Len(v.props) |->
                  <<v.props[i][1], StringifyValue(v.props[i][2])>>])
      [] v.t = "arr" -> Arr([i \in 1..Len(v.items) |-> StringifyValue(v.items[i])])
      [] OTHER -> v

\* JSON.parse(text): [thrown, value]
JsonParse(file) ==
    IF file.syntax = "invalid"
    THEN [thrown |-> "SyntaxError", value |-> Undefined]
    ELSE [thrown |-> "none", value |-> ParseValue(file.value)]

\* JSON.stringify(value, null, 2) + "\n"
JsonStringify(v) == JsonText("indent2+newline", StringifyValue(v))

\* value.key (property read): [thrown, value]
GetProp(v, k) ==
    CASE v.t = "null" -> [thrown |-> "TypeError", value |-> Undefined]
      [] v.t \in {"obj", "arr"} ->
           [thrown |-> "none",
            value |-> IF HasProp(v.props, k) THEN v.props[PropIndex(v.props, k)][2]
                      ELSE Undefined]
      [] OTHER -> [thrown |-> "none", value |-> Undefined]

\* value.key = x (assignment, strict mode: cli.ts is an ES module): [thrown, value]
SetProp(v, k, x) ==
    CASE v.t \in {"obj", "arr"} ->
           [thrown |-> "none", value |-> [v EXCEPT !.props = DefineProp(v.props, k, x)]]
      [] OTHER -> [thrown |-> "TypeError", value |-> v]

\* { ...a, ...b } with b a literal: the own properties of a (none for
\* undefined and null), then those of b, later names winning.  (A string or
\* an array would spread its index-named properties; the input manifests hold
\* an object, null or nothing under `scripts` and `engines`.)
SpreadProps(v) == IF v.t = "obj" THEN v.props ELSE << >>
Spread(a, bProps) == Obj(DefineAll(DefineAll(<< >>, SpreadProps(a)), bProps))

(***************************************************************************)
(* The constants of cli.ts.                                                *)
(***************************************************************************)
DEPENDENCIES ==
    << "@eslint/js@^9.36.0", "@ianvs/prettier-plugin-sort-imports@^4.5.1",
       "eslint@^9.0.0", "eslint-config-prettier@^10.1.5",
       "eslint-plugin-import@^2.32.0", "eslint-plugin-jsdoc@^60.7.1",
       "eslint-plugin-n@^17.23.1", "globals@^15.0.0", "prettier@^3.0.0",
       "typescript-eslint@^8.45.0" >>

SCRIPTS ==
    << <<"lint", Str("eslint .")>>, <<"lint:fix", Str("eslint . --fix")>>,
       <<"format", Str("prettier --write .")>>,
       <<"format:check", Str("prettier --check .")>> >>

ENGINES == << <<"node", Str(">=23.11.0")>> >>

PackageManager == {"bun", "pnpm", "yarn", "npm"}
Lockfiles == {"bun.lockb", "pnpm-lock.yaml", "yarn.lock", "package-lock.json"}

\* Faulty variant: the yarn lockfile checked before the pnpm lockfile.
detectPackageManager_yarnFirst(lk, probe) ==
    IF lk["bun.lockb"] THEN [pm |-> "bun", probed |-> FALSE]
    ELSE IF lk["yarn.lock"] THEN [pm |-> "yarn", probed |-> FALSE]
    ELSE IF lk["pnpm-lock.yaml"] THEN [pm |-> "pnpm", probed |-> FALSE]
    ELSE IF lk["package-lock.json"] THEN [pm |-> "npm", probed |-> FALSE]
    ELSE IF probe THEN [pm |-> "bun", probed |-> TRUE]
    ELSE [pm |-> "npm", probed |-> TRUE]

(***************************************************************************)
(* detectPackageManager(): [pm, probed].  `probed` tells whether           *)
(* execSync("bun --version") ran; a failing probe throws and is caught.    *)
(***************************************************************************)
detectPackageManager(lk, probe) ==
    IF lk["bun.lockb"] THEN [pm |-> "bun", probed |-> FALSE]
    ELSE IF lk["pnpm-lock.yaml"] THEN [pm |-> "pnpm", probed |-> FALSE]
    ELSE IF lk["yarn.lock"] THEN [pm |-> "yarn", probed |-> FALSE]
    ELSE IF lk["package-lock.json"] THEN [pm |-> "npm", probed |-> FALSE]
    ELSE IF probe THEN [pm |-> "bun", probed |-> TRUE]
    ELSE [pm |-> "npm", probed |-> TRUE]

\* getInstallCommand(pm): the command line as its words (joined by " ").
getInstallCommand(p) ==
    CASE p = "bun"  -> <<"bun", "add", "-d">> \o DEPENDENCIES
      [] p = "pnpm" -> <<"pnpm", "add", "-D">> \o DEPENDENCIES
      [] p = "yarn" -> <<"yarn", "add", "-D">> \o DEPENDENCIES
      [] OTHER      -> <<"npm", "install", "--save-dev">> \o DEPENDENCIES

(***************************************************************************)
(* I/O faults.  A call that touches the file system can fail: the read     *)
(* (readFileSync throws), the open of the written file (writeFileSync      *)
(* throws, nothing written) or the write after the open (writeFileSync     *)
(* throws, the file is left empty).                                        *)
(***************************************************************************)
Faults == {"none", "read", "open", "write"}

\* Faulty variant: copyTemplate without the existence check.
copyTemplate_overwrite(tgts, filename, fault) ==
    [targets |-> [tgts EXCEPT ![filename] = FileOf(Utf8Encode(Utf8Decode(TemplateBytes(filename))))],
     ret |-> "true", thrown |-> "none", warned |-> FALSE]

(***************************************************************************)
(* copyTemplate(filename) on the working directory tgts:                   *)
(* [targets, ret, thrown, warned].  ret is "true", "false", or "none" when *)
(* the call threw.                                                         *)
(***************************************************************************)
copyTemplate(tgts, filename, fault) ==
    IF tgts[filename].exists
    THEN [targets |-> tgts, ret |-> "false", thrown |-> "none", warned |-> TRUE]
    ELSE IF fault = "read"
    THEN [targets |-> tgts, ret |-> "none", thrown |-> "IOError", warned |-> FALSE]
    ELSE LET content == Utf8Decode(TemplateBytes(filename)) IN
         CASE fault = "open" ->
                [targets |-> tgts, ret |-> "none", thrown |-> "IOError",
                 warned |-> FALSE]
           [] fault = "write" ->
                [targets |-> [tgts EXCEPT ![filename] = FileOf(<< >>)],
                 ret |-> "none", thrown |-> "IOError", warned |-> FALSE]
           [] OTHER ->
                [targets |-> [tgts EXCEPT ![filename] = FileOf(Utf8Encode(content))],
                 ret |-> "true", thrown |-> "none", warned |-> FALSE]

\* Faulty variant: updatePackageJson that writes the fixed scripts whether or
\* not a manifest exists.
updatePackageJson_createsManifest(mf, addScripts, addEngines, fault) ==
    [manifest |-> JsonStringify(Obj(<< <<"scripts", Obj(SCRIPTS)>> >>)),
     thrown |-> "none", warned |-> FALSE, wrote |-> TRUE]

\* Faulty variant: updatePackageJson that truncates the manifest before parsing it.
updatePackageJson_truncatesFirst(mf, addScripts, addEngines, fault) ==
    IF ~mf.exists
    THEN [manifest |-> mf, thrown |-> "none", warned |-> TRUE, wrote |-> FALSE]
    ELSE [manifest |-> Truncated, thrown |-> "SyntaxError", warned |-> FALSE,
          wrote |-> TRUE]

(***************************************************************************)
(* updatePackageJson(addScripts, addEngines) on the manifest file mf:      *)
(* [manifest, thrown, warned, wrote].                                      *)
(***************************************************************************)
\* Faulty variant: packageJson.<key> = { ...<added> }, the map replaced wholesale.
MergeInto_replace(packageJson, key, added) ==
    SetProp(packageJson, key, Obj(added))

\* packageJson.<key> = { ...packageJson.<key>, ...<added> }: [thrown, value]
MergeInto(packageJson, key, added) ==
    LET old == GetProp(packageJson, key) IN
    IF old.thrown # "none" THEN [thrown |-> old.thrown, value |-> packageJson]
    ELSE SetProp(packageJson, key, Spread(old.value, added))

updatePackageJson(mf, addScripts, addEngines, fault) ==
    LET same(th) == [manifest |-> mf, thrown |-> th, warned |-> FALSE, wrote |-> FALSE]
    IN
    IF ~mf.exists
    THEN [manifest |-> mf, thrown |-> "none", warned |-> TRUE, wrote |-> FALSE]
    ELSE IF fault = "read" THEN same("IOError")
    ELSE LET parsed == JsonParse(mf) IN
    IF parsed.thrown # "none" THEN same(parsed.thrown)
    ELSE LET s == IF addScripts THEN MergeInto(parsed.value, "scripts", SCRIPTS)
                  ELSE [thrown |-> "none", value |-> parsed.value] IN
    IF s.thrown # "none" THEN same(s.thrown)
    ELSE LET e == IF addEngines THEN MergeInto(s.value, "engines", ENGINES)
                  ELSE [thrown |-> "none", value |-> s.value] IN
    IF e.thrown # "none" THEN same(e.thrown)
    ELSE CASE fault = "open" -> same("IOError")
           [] fault = "write" ->
                [manifest |-> Truncated, thrown |-> "IOError", warned |-> FALSE,
                 wrote |-> TRUE]
           [] OTHER ->
                [manifest |-> JsonStringify(e.value), thrown |-> "none",
                 warned |-> FALSE, wrote |-> TRUE]

(***************************************************************************)
(* main(): the prompts, then the steps.                                    *)
(***************************************************************************)
LogicalFiles == {"eslint", "prettier", "prettierignore"}

\* The filename main() passes to copyTemplate for each option of the multiselect.
TargetOf(l) ==
    CASE l = "eslint"         -> "eslint.config.js"
      [] l = "prettier"       -> "prettier.config.js"
      [] l = "prettierignore" -> ".prettierignore"

Msg(kind, text, arg) == <<kind, text, arg>>

\* Faulty variant: a prompt whose cancellation is not checked.
isCancel_never(answer) == FALSE

\* p.isCancel(answer): the prompt library's cancel symbol.
isCancel(answer) == answer = "cancel"

\* Truthiness of a confirm's answer in `if (answer)`: true, or any symbol.
Truthy(answer) == answer \in {"yes", "cancel"}

\* Faulty variant: the files written before the last prompt is shown.
NextAfter_writeBeforeLastPrompt(step) ==
    CASE step = "Start"                     -> "SelectFiles"
      [] step = "SelectFiles"               -> "ConfirmScripts"
      [] step = "ConfirmScripts"            -> "ConfirmEngines"
      [] step = "ConfirmEngines"            -> "WriteFiles.eslint"
      [] step = "ConfirmInstall"            -> "UpdateManifest"
      [] step = "WriteFiles.eslint"         -> "WriteFiles.prettier"
      [] step = "WriteFiles.prettier"       -> "WriteFiles.prettierignore"
      [] step = "WriteFiles.prettierignore" -> "ConfirmInstall"
      [] step = "UpdateManifest"            -> "InstallDeps"
      [] step = "InstallDeps"               -> "Outro"
      [] step = "Outro"                     -> "Done"

\* The statement that follows each step of main() when the step does not exit.
NextAfter(step) ==
    CASE step = "Start"                     -> "SelectFiles"
      [] step = "SelectFiles"               -> "ConfirmScripts"
      [] step = "ConfirmScripts"            -> "ConfirmEngines"
      [] step = "ConfirmEngines"            -> "ConfirmInstall"
      [] step = "ConfirmInstall"            -> "WriteFiles.eslint"
      [] step = "WriteFiles.eslint"         -> "WriteFiles.prettier"
      [] step = "WriteFiles.prettier"       -> "WriteFiles.prettierignore"
      [] step = "WriteFiles.prettierignore" -> "UpdateManifest"
      [] step = "UpdateManifest"            -> "InstallDeps"
      [] step = "InstallDeps"               -> "Outro"
      [] step = "Outro"                     -> "Done"

CopyPc(l) ==
    CASE l = "eslint"         -> "WriteFiles.eslint"
      [] l = "prettier"       -> "WriteFiles.prettier"
      [] l = "prettierignore" -> "WriteFiles.prettierignore"

\* if (p.isCancel(x)) { p.cancel("Operation cancelled"); process.exit(0); }
OnCancel == [pc |-> "Cancelled", exitCode |-> "0",
             out |-> <<Msg("cancel", "Operation cancelled", "")>>]

\* main().catch: an exception main() does not catch.
OnUncaught == [pc |-> "Failed", exitCode |-> "1",
               out |-> <<Msg("error", "An error occurred", "")>>]

\* Faulty variant: an install failure that is reported and not escalated.
OnInstallFailure_continue ==
    [pc |-> "Outro", exitCode |-> "running",
     out |-> << Msg("spinner.stop", "Failed to install dependencies", ""),
                Msg("error", "Failed to install dependencies", "") >>]

\* The catch of the install step.
OnInstallFailure ==
    [pc |-> "Failed", exitCode |-> "1",
     out |-> << Msg("spinner.stop", "Failed to install dependencies", ""),
                Msg("error", "Failed to install dependencies", ""),
                Msg("info", "You can install them manually with:", "") >>]

NoAnswer == [sel |-> "unset", value |-> {}]

Start ==
    LET d == detectPackageManager(lock, bunProbe) IN
    /\ pc = "Start"
    /\ pm' = d.pm
    /\ calls' = IF d.probed
                THEN Append(calls, [fn |-> "execSync", cmd |-> <<"bun", "--version">>,
                                    ok |-> bunProbe])
                ELSE calls
    /\ out' = out \o << Msg("intro", "Stern ESLint and Prettier Configuration", ""),
                        Msg("info", "Detected package manager:", d.pm) >>
    /\ pc' = NextAfter("Start")
    /\ UNCHANGED << lock, bunProbe, targets, manifest, targets0, manifest0, files,
                    updateScripts, updateEngines, installDeps, exitCode >>

\* What every prompt does with its answer, but for storing it.
Answered(step, answer) ==
    /\ pc = step
    /\ IF isCancel(answer)
       THEN /\ pc' = OnCancel.pc
            /\ exitCode' = OnCancel.exitCode
            /\ out' = out \o OnCancel.out
       ELSE /\ pc' = NextAfter(step)
            /\ UNCHANGED << exitCode, out >>
    /\ UNCHANGED << lock, bunProbe, targets, manifest, targets0, manifest0, pm, calls >>

\* p.multiselect with required: true: a non-empty selection, or cancel.
SelectFiles ==
    /\ \/ \E sel \in (SUBSET LogicalFiles) \ {{}} :
            /\ Answered("SelectFiles", "value")
            /\ files' = [sel |-> "value", value |-> sel]
       \/ /\ Answered("SelectFiles", "cancel")
          /\ files' = [sel |-> "cancel", value |-> {}]
    /\ UNCHANGED << updateScripts, updateEngines, installDeps >>

ConfirmScripts ==
    \E answer \in {"yes", "no", "cancel"} :
        /\ Answered("ConfirmScripts", answer)
        /\ updateScripts' = answer
        /\ UNCHANGED << files, updateEngines, installDeps >>

ConfirmEngines ==
    \E answer \in {"yes", "no", "cancel"} :
        /\ Answered("ConfirmEngines", answer)
        /\ updateEngines' = answer
        /\ UNCHANGED << files, updateScripts, installDeps >>

ConfirmInstall ==
    \E answer \in {"yes", "no", "cancel"} :
        /\ Answered("ConfirmInstall", answer)
        /\ installDeps' = answer
        /\ UNCHANGED << files, updateScripts, updateEngines >>

\* files.includes(l): [thrown, value].  The cancel symbol has no includes.
Includes(fs, l) ==
    IF fs.sel = "value" THEN [thrown |-> "none", value |-> l \in fs.value]
    ELSE [thrown |-> "TypeError", value |-> FALSE]

\* The spinner's messages around the three copies (cli.ts:174, 188).
CopyIntro(l) ==
    IF l = "eslint" THEN <<Msg("spinner.start", "Creating configuration files", "")>>
    ELSE << >>
CopyOutro(l) ==
    IF l = "prettierignore"
    THEN <<Msg("spinner.stop", "Configuration files created", "")>>
    ELSE << >>

\* if (files.includes(l)) { copyTemplate(TargetOf(l)); }   (no try around it)
CopyStep(l) ==
    LET inc == Includes(files, l)
        filename == TargetOf(l)
    IN
    /\ pc = CopyPc(l)
    /\ \/ /\ inc.thrown = "none" /\ ~inc.value
          /\ pc' = NextAfter(CopyPc(l))
          /\ out' = out \o CopyIntro(l) \o CopyOutro(l)
          /\ UNCHANGED << targets, calls, exitCode >>
       \/ /\ inc.thrown # "none"
          /\ pc' = OnUncaught.pc
          /\ exitCode' = OnUncaught.exitCode
          /\ out' = out \o CopyIntro(l) \o OnUncaught.out
          /\ UNCHANGED << targets, calls >>
       \/ /\ inc.thrown = "none" /\ inc.value
          /\ \E fault \in Faults :
               LET r == copyTemplate(targets, filename, fault)
                   warn == IF r.warned
                           THEN <<Msg("warn", "already exists, skipping", filename)>>
                           ELSE << >>
               IN
               /\ targets' = r.targets
               /\ calls' = Append(calls,
                             [fn |-> "copyTemplate", filename |-> filename,
                              before |-> targets[filename],
                              after |-> r.targets[filename],
                              fault |-> fault, ret |-> r.ret, thrown |-> r.thrown])
               /\ IF r.thrown = "none"
                  THEN /\ pc' = NextAfter(CopyPc(l))
                       /\ out' = out \o CopyIntro(l) \o warn \o CopyOutro(l)
                       /\ UNCHANGED exitCode
                  ELSE /\ pc' = OnUncaught.pc
                       /\ exitCode' = OnUncaught.exitCode
                       /\ out' = out \o CopyIntro(l) \o OnUncaught.out
    /\ UNCHANGED << lock, bunProbe, manifest, targets0, manifest0, pm, files,
                    updateScripts, updateEngines, installDeps >>

WriteFiles == \E l \in LogicalFiles : CopyStep(l)

\* if (updateScripts || updateEngines) { try { updatePackageJson(..) } catch {..} }
UpdateManifest ==
    /\ pc = "UpdateManifest"
    /\ pc' = NextAfter("UpdateManifest")
    /\ IF Truthy(updateScripts) \/ Truthy(updateEngines)
       THEN \E fault \in Faults :
              LET r == updatePackageJson(manifest, Truthy(updateScripts),
                                         Truthy(updateEngines), fault)
              IN
              /\ manifest' = r.manifest
              /\ calls' = Append(calls,
                            [fn |-> "updatePackageJson",
                             addScripts |-> Truthy(updateScripts),
                             addEngines |-> Truthy(updateEngines),
                             before |-> manifest, after |-> r.manifest,
                             fault |-> fault, thrown |-> r.thrown,
                             wrote |-> r.wrote])
              /\ out' = out
                   \o <<Msg("spinner.start", "Updating package.json", "")>>
                   \o (IF r.warned
                       THEN <<Msg("warn", "No package.json found, skipping updates", "")>>
                       ELSE << >>)
                   \o (IF r.thrown = "none"
                       THEN <<Msg("spinner.stop", "package.json updated", "")>>
                       ELSE << Msg("spinner.stop", "Failed to update package.json", ""),
                               Msg("error",
                                   "Could not update package.json automatically", "") >>)
       ELSE UNCHANGED << manifest, calls, out >>
    /\ UNCHANGED << lock, bunProbe, targets, targets0, manifest0, pm, files,
                    updateScripts, updateEngines, installDeps, exitCode >>

\* if (installDeps) { try { execSync(getInstallCommand(pm)) } catch { exit(1) } }
\* The package manager's own effects on the directory are not the tool's and
\* are not modelled.
InstallDeps ==
    /\ pc = "InstallDeps"
    /\ IF Truthy(installDeps)
       THEN \E ok \in BOOLEAN :
              /\ calls' = Append(calls, [fn |-> "execSync",
                                         cmd |-> getInstallCommand(pm), ok |-> ok])
              /\ IF ok
                 THEN /\ pc' = NextAfter("InstallDeps")
                      /\ out' = out
                           \o << Msg("spinner.start", "Installing dependencies", ""),
                                 Msg("spinner.stop", "Dependencies installed", "") >>
                      /\ UNCHANGED exitCode
                 ELSE /\ pc' = OnInstallFailure.pc
                      /\ exitCode' = OnInstallFailure.exitCode
                      /\ out' = out
                           \o <<Msg("spinner.start", "Installing dependencies", "")>>
                           \o OnInstallFailure.out
       ELSE /\ pc' = NextAfter("InstallDeps")
            /\ UNCHANGED << calls, out, exitCode >>
    /\ UNCHANGED << lock, bunProbe, targets, manifest, targets0, manifest0, pm, files,
                    updateScripts, updateEngines, installDeps >>

\* p.outro, the summary of commands, and the end of main(): exit status 0.
Outro ==
    /\ pc = "Outro"
    /\ pc' = NextAfter("Outro")
    /\ exitCode' = "0"
    /\ out' = out
         \o <<Msg("outro", "Setup complete", "")>>
         \o (IF Truthy(installDeps) /\ Truthy(updateScripts)
             THEN <<Msg("console.log", "Available commands:", pm)>>
             ELSE << >>)
    /\ UNCHANGED << lock, bunProbe, targets, manifest, targets0, manifest0, pm, files,
                    updateScripts, updateEngines, installDeps, calls >>

Next ==
    \/ Start
    \/ SelectFiles
    \/ ConfirmScripts
    \/ ConfirmEngines
    \/ ConfirmInstall
    \/ WriteFiles
    \/ UpdateManifest
    \/ InstallDeps
    \/ Outro

(***************************************************************************)
(* The states a run starts in.                                             *)
(***************************************************************************)
LockSets == [Lockfiles -> BOOLEAN]
NoLockfiles == [f \in Lockfiles |-> FALSE]

\* Each target file is absent or holds the project's own bytes.
TargetInputs == [TargetFiles -> {NoFile, FileOf(UserBytes)}]
EmptyDir == [f \in TargetFiles |-> NoFile]

InitWith(locks, tgts, manifests) ==
    /\ lock \in locks
    /\ bunProbe \in BOOLEAN
    /\ targets \in tgts
    /\ manifest \in manifests
    /\ targets0 = targets
    /\ manifest0 = manifest
    /\ pc = "Start"
    /\ pm = "unset"
    /\ files = NoAnswer
    /\ updateScripts = "unset"
    /\ updateEngines = "unset"
    /\ installDeps = "unset"
    /\ exitCode = "running"
    /\ out = << >>
    /\ calls = << >>

\* The manifests of the end-to-end runs: none, not JSON, a JSON object with
\* a `scripts` map, a JSON array.
RunManifests ==
    { NoManifest, InvalidJson,
      JsonText("compact",
               Obj(<< <<"name", Str("x")>>,
                      <<"scripts", Obj(<< <<"build", Str("tsc")>>,
                                          <<"lint", Str("old")>> >>)>> >>)),
      JsonText("compact", Arr(<< >>)) }

Init ==
    InitWith({NoLockfiles, [NoLockfiles EXCEPT !["yarn.lock"] = TRUE]},
             TargetInputs, RunManifests)

Spec == Init /\ [][Next]_vars

\* Package-manager detection over every placement of lockfiles, in a
\* directory that holds nothing else.
InitDetect == InitWith(LockSets, {EmptyDir}, {NoManifest})

SpecDetect == InitDetect /\ [][Next]_vars

(***************************************************************************)
(* updatePackageJson on its own, over the input manifests.                 *)
(***************************************************************************)
ScriptPairs == { <<"build", Str("tsc")>>, <<"lint", Str("old")>> }
EnginePairs == { <<"npm", Str(">=9")>>, <<"node", Str(">=18")>> }
ScriptVals == {Null} \cup { Obj(m) : m \in SeqsUpTo(ScriptPairs, MaxEntries) }
\* `engines` maps: none of the pairs, either, or both in either order.
EngineVals ==
    { Null, Obj(<< >>) }
      \cup { Obj(<<e>>) : e \in EnginePairs }
      \cup { Obj(<<e[1], e[2]>>) : e \in { x \in EnginePairs \X EnginePairs : x[1] # x[2] } }
TopPairs ==
    { <<"name", Str("x")>> }
      \cup { <<"scripts", v>> : v \in ScriptVals }
      \cup { <<"engines", v>> : v \in EngineVals }
ObjectDocs == { Obj(m) : m \in SeqsUpTo(TopPairs, MaxTop) }
\* JSON texts that parse to something other than an object.
NonObjectDocs == { Null, Str("x"), Arr(<< >>), Arr(<<Str("x")>>) }
ManifestInputs ==
    { NoManifest, InvalidJson }
      \cup { JsonText("compact", v) : v \in ObjectDocs \cup NonObjectDocs }

InitUpdate ==
    /\ lock = NoLockfiles
    /\ bunProbe = FALSE
    /\ targets = EmptyDir
    /\ manifest \in ManifestInputs
    /\ targets0 = targets
    /\ manifest0 = manifest
    /\ pc = "updatePackageJson"
    /\ pm = "unset"
    /\ files = NoAnswer
    /\ updateScripts \in {"yes", "no"}
    /\ updateEngines \in {"yes", "no"}
    /\ installDeps = "unset"
    /\ exitCode = "running"
    /\ out = << >>
    /\ calls = << >>

\* One call updatePackageJson(updateScripts, updateEngines).
CallUpdatePackageJson ==
    /\ pc = "updatePackageJson"
    /\ pc' = "returned"
    /\ \E fault \in Faults :
         LET r == updatePackageJson(manifest, Truthy(updateScripts),
                                    Truthy(updateEngines), fault)
         IN
         /\ manifest' = r.manifest
         /\ calls' = Append(calls,
                       [fn |-> "updatePackageJson",
                        addScripts |-> Truthy(updateScripts),
                        addEngines |-> Truthy(updateEngines),
                        before |-> manifest, after |-> r.manifest,
                        fault |-> fault, thrown |-> r.thrown, wrote |-> r.wrote])
         /\ out' = IF r.warned
                   THEN <<Msg("warn", "No package.json found, skipping updates", "")>>
                   ELSE << >>
    /\ UNCHANGED << lock, bunProbe, targets, targets0, manifest0, pm, files,
                    updateScripts, updateEngines, installDeps, exitCode >>

NextUpdate == CallUpdatePackageJson

SpecUpdate == InitUpdate /\ [][NextUpdate]_vars

(***************************************************************************)
(* Vocabulary of the properties.                                           *)
(***************************************************************************)
LastCall == calls[Len(calls)]
Names(props) == { props[i][1] : i \in 1..Len(props) }
Lookup(props, k) == IF HasProp(props, k) THEN props[PropIndex(props, k)][2] ELSE Undefined
\* The entries of what a manifest holds under `scripts` or `engines`.
EntriesOf(v) == IF v.t = "obj" THEN v.props ELSE << >>
Parses(file) == file.exists /\ file.syntax = "json"
Printed(kind, text) == \E i \in 1..Len(out) : out[i][1] = kind /\ out[i][2] = text

\* The map `after` is the map `before` merged with `fixed`, new entries winning.
MergedMap(before, after, fixed) ==
    /\ after.t = "obj"
    /\ \A i \in 1..Len(fixed) : Lookup(after.props, fixed[i][1]) = fixed[i][2]
    /\ \A k \in Names(EntriesOf(before)) \ Names(fixed) :
          Lookup(after.props, k) = Lookup(EntriesOf(before), k)
    /\ Names(after.props) \subseteq Names(EntriesOf(before)) \cup Names(fixed)

\* A call updatePackageJson(addScripts, addEngines) that took the manifest
\* text `before` to `after` changed the scripts and engines maps as the flags
\* say, and nothing else.
OnlyMapsMerged(call) ==
    LET old == ParseValue(call.before.value)
        oldProps == EntriesOf(old)
        new == ParseValue(call.after.value)
    IN
    /\ call.thrown = "none"
    /\ Parses(call.after)
    /\ new.t = "obj"
    /\ \A k \in (Names(oldProps) \cup Names(new.props)) \ {"scripts", "engines"} :
          Lookup(new.props, k) = Lookup(oldProps, k)
    /\ IF call.addScripts
       THEN MergedMap(Lookup(oldProps, "scripts"), Lookup(new.props, "scripts"), SCRIPTS)
       ELSE Lookup(new.props, "scripts") = Lookup(oldProps, "scripts")
    /\ IF call.addEngines
       THEN MergedMap(Lookup(oldProps, "engines"), Lookup(new.props, "engines"), ENGINES)
       ELSE Lookup(new.props, "engines") = Lookup(oldProps, "engines")

UpdateReturned ==
    /\ pc = "returned"
    /\ LastCall.fault = "none"
    /\ Parses(manifest0)

\* C2 (as stated): whenever the manifest exists and parses, a call of
\* updatePackageJson (with no I/O fault) leaves every other top-level key as
\* it was, gives every fixed script/engine entry its fixed value, keeps the
\* other entries, and leaves a map whose flag is false unchanged.
C2_MergeWheneverManifestParses ==
    UpdateReturned => OnlyMapsMerged(LastCall)

\* C2 (amended): the same, for a manifest that parses to a JSON object.
C2_MergeWhenManifestIsObject ==
    (UpdateReturned /\ ParseValue(manifest0.value).t = "obj")
        => OnlyMapsMerged(LastCall)

\* C2's case: {"name":"x","scripts":{"build":"tsc","lint":"old"}} updated with
\* addScripts: build is kept, lint is replaced, name is kept.
C2_Witness ==
    /\ UpdateReturned
    /\ LastCall.addScripts
    /\ ParseValue(manifest0.value) =
         Obj(<< <<"name", Str("x")>>,
                <<"scripts", Obj(<< <<"build", Str("tsc")>>, <<"lint", Str("old")>> >>)>> >>)
    /\ Lookup(Lookup(ParseValue(manifest.value).props, "scripts").props, "build") = Str("tsc")
    /\ Lookup(Lookup(ParseValue(manifest.value).props, "scripts").props, "lint")
         = Str("eslint .")
    /\ Lookup(ParseValue(manifest.value).props, "name") = Str("x")

(***************************************************************************)
(* Properties of the functions and of main().                              *)
(***************************************************************************)
CallsOf(fn) == { i \in 1..Len(calls) : calls[i].fn = fn }
ProbeCmd == <<"bun", "--version">>
InstallCalls == { i \in CallsOf("execSync") : calls[i].cmd # ProbeCmd }
ProbeCalls == { i \in CallsOf("execSync") : calls[i].cmd = ProbeCmd }
Exited == exitCode # "running"
AllAnswered == installDeps \in {"yes", "no"}

\* C1: copyTemplate never overwrites: called on a target that exists it
\* leaves the file as it was and returns false; called on a target that does
\* not exist (and with no I/O fault) it creates the file with the bytes of
\* the bundled template and returns true.
C1_CopyNeverOverwrites ==
    \A i \in CallsOf("copyTemplate") :
        LET c == calls[i] IN
        /\ c.before.exists => (c.after = c.before /\ c.ret = "false")
        /\ (~c.before.exists /\ c.fault = "none")
              => /\ c.after = FileOf(TemplateBytes(c.filename))
                 /\ c.ret = "true"

\* C1's case: one run skipped an existing target and created an absent one.
C1_Witness ==
    /\ \E i \in CallsOf("copyTemplate") :
          calls[i].before = FileOf(UserBytes) /\ calls[i].ret = "false"
             /\ targets[calls[i].filename] = FileOf(UserBytes)
    /\ \E i \in CallsOf("copyTemplate") :
          ~calls[i].before.exists /\ calls[i].ret = "true"
             /\ targets[calls[i].filename] = FileOf(TemplateBytes(calls[i].filename))

\* C3: detectPackageManager always returns one of the four managers, the
\* first match of bun.lockb, pnpm-lock.yaml, yarn.lock, package-lock.json,
\* else bun if the probe succeeds, else npm; the probe runs only when no
\* lockfile is present, and its failure does not end the run.
C3_DetectFirstMatchWins ==
    pc # "Start" =>
      /\ pm \in PackageManager
      /\ lock["bun.lockb"] => pm = "bun"
      /\ (~lock["bun.lockb"] /\ lock["pnpm-lock.yaml"]) => pm = "pnpm"
      /\ (~lock["bun.lockb"] /\ ~lock["pnpm-lock.yaml"] /\ lock["yarn.lock"])
            => pm = "yarn"
      /\ (~lock["bun.lockb"] /\ ~lock["pnpm-lock.yaml"] /\ ~lock["yarn.lock"]
            /\ lock["package-lock.json"]) => pm = "npm"
      /\ (\A f \in Lockfiles : ~lock[f]) => pm = (IF bunProbe THEN "bun" ELSE "npm")
      /\ (ProbeCalls # {}) <=> (\A f \in Lockfiles : ~lock[f])
      /\ pc = "SelectFiles" => exitCode = "running"

\* C3's case: three lockfiles at once, the first in priority wins, no probe.
C3_Witness ==
    /\ pc = "SelectFiles"
    /\ ~lock["bun.lockb"] /\ lock["pnpm-lock.yaml"] /\ lock["yarn.lock"]
    /\ lock["package-lock.json"] /\ bunProbe
    /\ pm = "pnpm"
    /\ ProbeCalls = {}

\* C4: when the manifest update runs on a manifest that is not valid JSON,
\* it fails, the error is reported, the manifest is left as it was, and the
\* run goes on: to the install command if installation was confirmed, and to
\* exit status 0 unless that command fails.
C4_InvalidManifestIsNotFatal ==
    \A i \in CallsOf("updatePackageJson") :
        (calls[i].before.exists /\ calls[i].before.syntax = "invalid") =>
          /\ calls[i].thrown # "none"
          /\ calls[i].after = calls[i].before
          /\ manifest = calls[i].before
          /\ Printed("error", "Could not update package.json automatically")
          /\ pc \in {"InstallDeps", "Outro", "Done", "Failed"}
          /\ (pc # "InstallDeps" /\ installDeps = "yes") => InstallCalls # {}
          /\ pc = "Failed" => \E j \in InstallCalls : ~calls[j].ok
          /\ pc = "Done" => exitCode = "0"

\* C4's case: the update failed on invalid JSON, the install ran, the run is Done.
C4_Witness ==
    /\ pc = "Done" /\ exitCode = "0"
    /\ manifest0 = InvalidJson /\ manifest = InvalidJson
    /\ \E i \in CallsOf("updatePackageJson") : calls[i].thrown = "SyntaxError"
    /\ \E j \in InstallCalls : calls[j].ok

\* C5 (as stated): a copy that fails does not end the run: when the process
\* has exited, every selected file was attempted, and the exit status is 1
\* only if the install command failed.
C5_CopyFailureDoesNotAbort ==
    (Exited /\ \E i \in CallsOf("copyTemplate") : calls[i].thrown # "none") =>
      /\ \A l \in files.value :
            \E i \in CallsOf("copyTemplate") : calls[i].filename = TargetOf(l)
      /\ exitCode = "1" => \E j \in InstallCalls : ~calls[j].ok

\* C6: a cancel at any prompt ends the run at once in Cancelled with exit
\* status 0: no later prompt is answered and no file is copied, no manifest
\* updated, no install run, no "Setup complete" printed.
C6_CancelEndsRun ==
    LET answers == << files.sel, updateScripts, updateEngines, installDeps >> IN
    (pc = "Cancelled" \/ \E n \in 1..4 : answers[n] = "cancel") =>
      /\ pc = "Cancelled"
      /\ exitCode = "0"
      /\ \E n \in 1..4 :
            /\ answers[n] = "cancel"
            /\ \A m \in 1..4 : m > n => answers[m] = "unset"
            /\ \A m \in 1..4 : m < n => answers[m] \notin {"unset", "cancel"}
      /\ CallsOf("copyTemplate") = {} /\ CallsOf("updatePackageJson") = {}
      /\ InstallCalls = {}
      /\ Printed("cancel", "Operation cancelled")
      /\ ~Printed("outro", "Setup complete")

\* C6's case: files selected, scripts confirmed, the engines prompt cancelled.
C6_Witness ==
    /\ pc = "Cancelled" /\ exitCode = "0"
    /\ files.sel = "value" /\ updateScripts = "yes" /\ updateEngines = "cancel"
    /\ installDeps = "unset"

\* What the tool itself wrote is still on disk: every file a copy left, and
\* the manifest the update left.
WritesKept ==
    /\ \A i \in CallsOf("copyTemplate") : targets[calls[i].filename] = calls[i].after
    /\ \A i \in CallsOf("updatePackageJson") : manifest = calls[i].after
    /\ \A f \in TargetFiles :
          (\A i \in CallsOf("copyTemplate") : calls[i].filename # f)
             => targets[f] = targets0[f]

\* C7: installation is the fatal step: once the install command has failed
\* the run is over with exit status 1, "Setup complete" and the summary of
\* commands are never printed, and what was written before stays written.
C7_InstallFailureIsFatal ==
    (\E j \in InstallCalls : ~calls[j].ok) =>
      /\ installDeps = "yes"
      /\ pc = "Failed"
      /\ exitCode = "1"
      /\ ~Printed("outro", "Setup complete")
      /\ ~Printed("console.log", "Available commands:")
      /\ Printed("error", "Failed to install dependencies")
      /\ WritesKept

\* C7's case: a template was written and the manifest updated, then the
\* install command failed.
C7_Witness ==
    /\ \E j \in InstallCalls : ~calls[j].ok
    /\ exitCode = "1"
    /\ \E i \in CallsOf("copyTemplate") :
          calls[i].ret = "true"
             /\ targets[calls[i].filename] = FileOf(TemplateBytes(calls[i].filename))
    /\ \E i \in CallsOf("updatePackageJson") : calls[i].wrote /\ calls[i].thrown = "none"
    /\ manifest # manifest0

\* C8: on a directory with no target file and no manifest, a run (with no
\* I/O fault) that selects S, confirms scripts and engines and declines the
\* installation ends Done with exit status 0, exactly the targets of S
\* created from their templates, no manifest, no install command run; the
\* manifest update wrote nothing and threw nothing.
C8_EmptyDirRun ==
    ( /\ Exited
      /\ targets0 = EmptyDir /\ manifest0 = NoManifest
      /\ updateScripts = "yes" /\ updateEngines = "yes" /\ installDeps = "no"
      /\ \A i \in 1..Len(calls) : calls[i].fn # "execSync" => calls[i].fault = "none" )
    =>
      /\ pc = "Done" /\ exitCode = "0"
      /\ \A l \in LogicalFiles :
            targets[TargetOf(l)] =
               IF l \in files.value THEN FileOf(TemplateBytes(TargetOf(l))) ELSE NoFile
      /\ Cardinality({ f \in TargetFiles : targets[f].exists }) = Cardinality(files.value)
      /\ manifest = NoManifest
      /\ InstallCalls = {}
      /\ \A i \in CallsOf("updatePackageJson") :
            ~calls[i].wrote /\ calls[i].thrown = "none"
      /\ Cardinality(CallsOf("updatePackageJson")) = 1

\* C8's case: two of the three files selected on an empty directory.
C8_Witness ==
    /\ pc = "Done" /\ exitCode = "0"
    /\ targets0 = EmptyDir /\ manifest0 = NoManifest /\ manifest = NoManifest
    /\ files.value = {"eslint", "prettierignore"}
    /\ updateScripts = "yes" /\ updateEngines = "yes" /\ installDeps = "no"
    /\ targets["eslint.config.js"] = FileOf(TemplateBytes("eslint.config.js"))
    /\ targets[".prettierignore"] = FileOf(TemplateBytes(".prettierignore"))
    /\ ~targets["prettier.config.js"].exists

StartsOf(text) == { i \in 1..Len(out) : out[i][1] = "spinner.start" /\ out[i][2] = text }

\* C9 (as stated): in every run that answered the four prompts and has
\* exited, WriteFiles, UpdateManifest and InstallDeps were entered in that
\* order and at most once each, UpdateManifest exactly when scripts or
\* engines was confirmed, and the install command was run exactly when the
\* installation was confirmed.
C9_StepsInOrderIffConfirmed ==
    (Exited /\ AllAnswered) =>
      /\ Cardinality(StartsOf("Creating configuration files")) = 1
      /\ Cardinality(StartsOf("Updating package.json")) <= 1
      /\ Cardinality(StartsOf("Installing dependencies")) <= 1
      /\ \A i \in StartsOf("Creating configuration files") :
            \A j \in StartsOf("Updating package.json") \cup StartsOf("Installing dependencies") :
                i < j
      /\ \A i \in StartsOf("Updating package.json") :
            \A j \in StartsOf("Installing dependencies") : i < j
      /\ \A i \in CallsOf("copyTemplate") :
            \A j \in CallsOf("updatePackageJson") \cup InstallCalls : i < j
      /\ \A i \in CallsOf("updatePackageJson") : \A j \in InstallCalls : i < j
      /\ (StartsOf("Updating package.json") # {})
            <=> (updateScripts = "yes" \/ updateEngines = "yes")
      /\ Cardinality(CallsOf("updatePackageJson"))
            = (IF updateScripts = "yes" \/ updateEngines = "yes" THEN 1 ELSE 0)
      /\ Cardinality(InstallCalls) = (IF installDeps = "yes" THEN 1 ELSE 0)

\* C10: until all four prompts are answered nothing is written and no
\* install command is run, so a cancelled run leaves every target file and
\* the manifest as they were when it started.
C10_NoEffectBeforeAllAnswered ==
    (~AllAnswered \/ pc = "Cancelled") =>
      /\ targets = targets0
      /\ manifest = manifest0
      /\ CallsOf("copyTemplate") = {} /\ CallsOf("updatePackageJson") = {}
      /\ InstallCalls = {}

\* C10's case: everything confirmed, then the last prompt cancelled, in a
\* directory where the later steps would have written.
C10_Witness ==
    /\ pc = "Cancelled"
    /\ files.value = LogicalFiles /\ updateScripts = "yes" /\ updateEngines = "yes"
    /\ installDeps = "cancel"
    /\ targets = EmptyDir /\ Parses(manifest) /\ manifest = manifest0

====
